---- MODULE Spec2Model ----
(***************************************************************************)
(* A model of utest, an in-process unit-testing harness.                   *)
(*                                                                         *)
(* The repository holds two implementations of the runner:                 *)
(*   impl = "header" : src/utest.h, the header-only harness (fixtures are  *)
(*                     an intrusive list begin/end/next_test);             *)
(*   impl = "lib"    : src/utest.cc, the compiled harness (fixtures are a  *)
(*                     vector, suite::fixtures).                           *)
(* The macros (test_op, test_section) and the comparator exist only in     *)
(* src/utest.h and are shared by both.                                     *)
(***************************************************************************)
EXTENDS Integers, Sequences, FiniteSets, TLC

\* ------------------------------------------------------------ bounds
MaxFixtures == 3        \* fixture objects constructed during static initialisation
MaxAsserts == 2         \* assertion calls issued by all bodies of one run
MaxNest == 2            \* scoped sections a body holds open at once
RepFixtures == 1         \* the same three, for the runs whose report is followed line by line
RepAsserts == 2
RepNest == 2
DeepFixtures == 1       \* the same three, for the runs that nest sections deeply
DeepAsserts == 1
DeepNest == 33
MaxLen == 3             \* length of the sequences handed to compare
MaxElem == 2            \* the scalars compared are 1..MaxElem
MaxOob == 1             \* writes outside the names array one run is followed through
MaxOverrun == 1         \* elements an iterator walks past its end before the read faults

\* ------------------------------------------------------------ program constants
NULL == 0               \* nullptr; fixture objects are 1, 2, ... in construction order
NamesCapacity == 32     \* std::array<const char*, 32> names
quiet == 0
failures == 1
passed == 2
everything == 3
default_verbosity == failures

Impls == {"header", "lib"}
Relations == {"==", "!=", ">", ">=", "<", "<="}

VARIABLES
    impl,           \* which of the two implementations is built
    verbosity,      \* suite::config::verbosity
    source_root,    \* suite::config::source_root
    fx,             \* the fixture objects, in construction order
    fixtures,       \* suite::fixtures (lib)
    begin,          \* suite::begin (header)
    end,            \* suite::end (header)
    current,        \* suite::current
    pc,             \* position of the program
    it,             \* runall's loop variable: a vector position (lib), a fixture (header)
    single,         \* runall took the begin == end branch (header)
    numtests, numpassed, numcases, numerrors,   \* runall's locals
    ret,            \* runall's return value, once pc = "done"
    oob,            \* writes outside the names array so far
    entry,          \* the live section objects of the running body: depth seen at entry
    issued,         \* per fixture body: assertion calls it executed
    failed,         \* per fixture body: assertion calls it executed that failed
    log,            \* the fixture operations runall has called, in order
    cleft, cright, crel, cdepth, cout,   \* one call of compare: operands, relation, nesting, outcome
    args,           \* the argv main was started with, once suite::run has read it
    received,       \* per fixture object: the add_result calls made on it, and those with !success
    out,            \* the reporter: the kinds of line printed so far
    lastcase,       \* the reporter: what the latest add_result printed
    lastpath,       \* per fixture object: the section path at its latest reported case, and
                    \* whether a section was entered or left since
    endlines,       \* the reporter: the teardown lines, in order
    summary,        \* the reporter: the final summary line
    sverbosity, sfx, snumerrors, sret    \* a second run of the same bodies under another verbosity

runner == <<impl, verbosity, source_root, fx, fixtures, begin, end, current, pc, it, single,
            numtests, numpassed, numcases, numerrors, ret, oob, entry, issued, failed, log>>
cmp == <<cleft, cright, crel, cdepth, cout>>
report == <<args, received, out, lastcase, lastpath, endlines, summary>>
shadow == <<sverbosity, sfx, snumerrors, sret>>
vars == <<runner, cmp, report, shadow>>

\* ------------------------------------------------------------ comparator
Elems == 1..MaxElem

\* the lambda of test_op: l op r
Pred(R, l, r) ==
    CASE R = "==" -> l = r
      [] R = "!=" -> l # r
      [] R = ">"  -> l > r
      [] R = ">=" -> l >= r
      [] R = "<"  -> l < r
      [] R = "<=" -> l <= r

Outcome(b) == IF b THEN "true" ELSE "false"

\* Where the walk past an end stops being a readable address.
WalkLimit == MaxLen + MaxOverrun

\* compare(left, right, predicate) for operands nested d levels deep (d = 0: the
\* scalar overload). The result is the set of outcomes of the call: "true", "false",
\* or "crash" when a read outside a range faults. *l and *r are read BEFORE any end
\* test, so an empty range is dereferenced at its end: that read is undefined, it
\* faults or yields an arbitrary value.
RECURSIVE CompareFrom(_, _, _, _, _)
CompareFrom(d, left, right, R, i) ==
    LET lvalid == i < Len(left)
        rvalid == i < Len(right)
        elem ==
            IF d = 1
            THEN (IF lvalid /\ rvalid THEN {} ELSE {"crash"}) \cup
                 { Outcome(Pred(R, l, r)) :
                     l \in (IF lvalid THEN {left[i + 1]} ELSE Elems),
                     r \in (IF rvalid THEN {right[i + 1]} ELSE Elems) }
            ELSE IF lvalid /\ rvalid
                 THEN CompareFrom(d - 1, left[i + 1], right[i + 1], R, 0)
                 ELSE {"true", "false", "crash"}
        leftend == (i + 1 = Len(left))
        rightend == (i + 1 = Len(right))
        rest ==
            IF leftend # rightend THEN {"false"}
            ELSE IF leftend \/ rightend THEN {"true"}
            ELSE IF i + 1 >= WalkLimit THEN {"crash"}
            ELSE CompareFrom(d, left, right, R, i + 1)
    IN  (elem \cap {"false", "crash"}) \cup (IF "true" \in elem THEN rest ELSE {})

compare(d, left, right, R) ==
    IF d = 0 THEN {Outcome(Pred(R, left, right))} ELSE CompareFrom(d, left, right, R, 0)

\* ------------------------------------------------------------ fixture
NewFixture ==
    [ cases |-> 0, caseindex |-> 0, errors |-> 0,
      current |-> 0,                 \* sections.current
      names |-> <<"main">>,          \* sections.names[0 .. sections.current]
      section_changed |-> TRUE,
      printed_something |-> FALSE,
      next_test |-> NULL ]

InNames(i) == i \in 0..(NamesCapacity - 1)

\* What a write of names[i] outside the array leaves in sections.current, the member
\* that follows the array: the index itself when the write lands elsewhere, or the
\* low bits of the stored pointer (an arbitrary int, sampled below and above the array).
Clobbered(i) == {i, -7, 40}

\* The slots of names kept in the model are those at and below sections.current: a
\* slot above it is overwritten by push_section before print_section can read it.
Live(names, c) ==
    IF c + 1 \in 0..Len(names) THEN SubSeq(names, 1, c + 1) ELSE names

\* push_section: the set of outcomes [crashed, rec]
push_section(r, name) ==
    LET i == r.current + 1
        pushed(c) == [r EXCEPT !.section_changed = TRUE, !.current = c]
        stored == IF i \in 0..Len(r.names)
                  THEN Append(SubSeq(r.names, 1, i), name)
                  ELSE r.names
    IN  IF InNames(i)
        THEN { [crashed |-> FALSE, rec |-> [pushed(i) EXCEPT !.names = stored]] }
        ELSE { [crashed |-> TRUE, rec |-> pushed(i)] } \cup
             { [crashed |-> FALSE, rec |-> pushed(c)] : c \in Clobbered(i) }

\* pop_section without `section_changed = true`
pop_section_Silent(r) ==
    [r EXCEPT !.current = @ - 1, !.names = Live(@, r.current - 1)]

pop_section(r) ==
    [r EXCEPT !.section_changed = TRUE, !.current = @ - 1, !.names = Live(@, r.current - 1)]

add_case(r) == [r EXCEPT !.cases = @ + 1]

\* the gate without its inner test: every case is printed once verbosity > quiet
ReportsAt_AllCases(v, success) == v > quiet

\* the gate without its outer test of verbosity > quiet
ReportsAt_NoQuietGate(v, success) == ~success \/ v >= passed

\* does add_result print this case, under verbosity v
ReportsAt(v, success) ==
    /\ v > quiet
    /\ (~success \/ v >= passed)

Reports(success) == ReportsAt(verbosity, success)

\* the detail gate without `!success ||`
DetailsAt_EverythingOnly(v, success) ==
    /\ ReportsAt(v, success)
    /\ v >= everything

\* does add_result print the expression and the operand values of this case
DetailsAt(v, success) ==
    /\ ReportsAt(v, success)
    /\ (~success \/ v >= everything)

\* the range print_section joins: names[0 .. sections.current]
Path(r) ==
    IF r.current + 1 \in 1..Len(r.names) THEN SubSeq(r.names, 1, r.current + 1)
    ELSE <<"garbage">>

\* what one add_result on r prints under verbosity v
Emission(v, r, success) ==
    [ reported |-> ReportsAt(v, success),
      blank    |-> ReportsAt(v, success) /\ impl = "lib" /\ ~r.printed_something,
      section  |-> ReportsAt(v, success) /\ r.section_changed,    \* print_section
      path     |-> Path(r),
      index    |-> r.caseindex,                                   \* print_case_header
      success  |-> success,
      detail   |-> DetailsAt(v, success) ]

\* add_result with errors++ moved inside the printing branch
add_result_at_ReportedOnly(v, r, success) ==
    [r EXCEPT !.errors = IF ~success /\ ReportsAt(v, success) THEN @ + 1 ELSE @,
              !.printed_something = IF ReportsAt(v, success) /\ impl = "lib" THEN TRUE ELSE @,
              !.section_changed = IF ReportsAt(v, success) THEN FALSE ELSE @,
              !.caseindex = @ + 1]

add_result_at(v, r, success) ==
    LET e == IF success THEN r.errors ELSE r.errors + 1
    IN  [r EXCEPT !.errors = e,
                  !.printed_something = IF ReportsAt(v, success) /\ impl = "lib" THEN TRUE ELSE @,
                  !.section_changed = IF ReportsAt(v, success) THEN FALSE ELSE @,
                  !.caseindex = @ + 1]

\* add_result without its first statement
add_result_NoCount(r, success) ==
    [add_result_at(verbosity, r, success) EXCEPT !.errors = r.errors]

add_result(r, success) == add_result_at(verbosity, r, success)

\* test_op: __TEST_BEGIN(); __TEST_CURRENT.add_result(...); __TEST_END()
test_op(r, success) == add_result(add_case(r), success)

\* ------------------------------------------------------------ suite::run
ArgLists ==
    { <<"utest">>,
      <<"utest", "-v", "quiet">>,
      <<"utest", "--verbosity", "passed">>,
      <<"utest", "-v", "everything">>,
      <<"utest", "-v", "failures">>,
      <<"utest", "-v", "bogus">>,
      <<"utest", "bogus", "-v">>,
      <<"utest", "-v", "-v", "quiet">>,
      <<"utest", "passed">>,
      <<"utest", "-v", "quiet", "-v", "everything">>,
      <<"utest", "-v", "-s", "root">>,
      <<"utest", "--source_root", "root", "--verbosity", "quiet">> }

\* a parser that falls back to quiet on a value it does not know
VerbosityOf_UnknownIsQuiet(tok, old) ==
    CASE tok = "failures" -> failures
      [] tok = "passed" -> passed
      [] tok = "everything" -> everything
      [] OTHER -> quiet

VerbosityOf(tok, old) ==
    CASE tok = "quiet" -> quiet
      [] tok = "failures" -> failures
      [] tok = "passed" -> passed
      [] tok = "everything" -> everything
      [] OTHER -> old

\* the for loop of suite::run from index i (0-based) with configuration c
RECURSIVE ParseArgs(_, _, _)
ParseArgs(argv, i, c) ==
    IF i >= Len(argv) THEN c
    ELSE LET isv == argv[i + 1] \in {"--verbosity", "-v"} /\ i + 1 < Len(argv)
             i1 == IF isv THEN i + 1 ELSE i
             c1 == IF isv THEN [c EXCEPT !.verbosity = VerbosityOf(argv[i1 + 1], @)] ELSE c
             iss == argv[i1 + 1] \in {"--source_root", "-s"} /\ i1 + 1 < Len(argv)
             i2 == IF iss THEN i1 + 1 ELSE i1
             c2 == IF iss THEN [c1 EXCEPT !.source_root = argv[i2 + 1]] ELSE c1
         IN  ParseArgs(argv, i2 + 1, c2)

\* ------------------------------------------------------------ initial state
NoCase ==
    [ fixture |-> NULL, reported |-> FALSE, blank |-> FALSE, section |-> FALSE,
      path |-> <<>>, index |-> 0, success |-> TRUE, detail |-> FALSE,
      prevpath |-> <<>>, moved |-> FALSE ]

NoSummary ==
    [ printed |-> FALSE, tests |-> 0, passed |-> 0, cases |-> 0, casespassed |-> 0,
      failing |-> {} ]

\* nothing has been printed, no second run has started
InitReport ==
    /\ args = <<>>
    /\ received = <<>>
    /\ out = {}
    /\ lastcase = NoCase
    /\ lastpath = <<>>
    /\ endlines = <<>>
    /\ summary = NoSummary
    /\ sverbosity = default_verbosity
    /\ sfx = <<>>
    /\ snumerrors = 0
    /\ sret = 0

Init ==
    /\ InitReport
    /\ impl \in Impls
    /\ verbosity = default_verbosity
    /\ source_root = ""
    /\ fx = <<>>
    /\ fixtures = <<>>
    /\ begin = NULL
    /\ end = NULL
    /\ current = NULL
    /\ pc = "static"
    /\ it = NULL
    /\ single = FALSE
    /\ numtests = 0 /\ numpassed = 0 /\ numcases = 0 /\ numerrors = 0
    /\ ret = 0
    /\ oob = 0
    /\ entry = <<>>
    /\ issued = <<>>
    /\ failed = <<>>
    /\ log = <<>>
    /\ cleft = <<>> /\ cright = <<>> /\ crel = "==" /\ cdepth = 1 /\ cout = "none"

\* ------------------------------------------------------------ static initialisation
\* fixture::fixture(), run once per test_define before main
FixtureCtor(maxFixtures) ==
    /\ pc = "static"
    /\ Len(fx) < maxFixtures
    /\ LET this == Len(fx) + 1 IN
       IF impl = "lib"
       THEN /\ fixtures' = Append(fixtures, this)
            /\ fx' = Append(fx, NewFixture)
            /\ UNCHANGED <<begin, end, current>>
       ELSE IF begin = NULL \/ end = NULL
            THEN /\ begin' = this
                 /\ end' = this
                 /\ current' = this
                 /\ fx' = Append(fx, NewFixture)
                 /\ UNCHANGED fixtures
            ELSE /\ fx' = Append([fx EXCEPT ![end].next_test = this], NewFixture)
                 /\ end' = this
                 /\ UNCHANGED <<begin, current, fixtures>>
    /\ issued' = Append(issued, 0)
    /\ failed' = Append(failed, 0)
    /\ received' = Append(received, [calls |-> 0, fails |-> 0])
    /\ lastpath' = Append(lastpath, [path |-> <<>>, moved |-> FALSE])
    /\ sfx' = fx'
    /\ UNCHANGED <<impl, verbosity, source_root, pc, it, single,
                   numtests, numpassed, numcases, numerrors, ret, oob, entry, log, cmp>>
    /\ UNCHANGED <<args, out, lastcase, endlines, summary, sverbosity, snumerrors, sret>>

\* ------------------------------------------------------------ runner
\* the fixture the loop of runall is at
LoopFixture == IF impl = "lib" THEN fixtures[it] ELSE it

\* the loop of runall has a fixture to process
HasFixture ==
    IF impl = "lib" THEN it <= Len(fixtures) ELSE (single \/ it # end)

\* main -> suite::run(argc, argv) -> runall() up to its first fixture
SuiteRun(argv, sargv) ==
    /\ pc = "static"
    /\ args' = argv
    /\ sverbosity' = ParseArgs(sargv, 0, [verbosity |-> sverbosity, source_root |-> source_root]).verbosity
    /\ snumerrors' = 0
    /\ UNCHANGED <<received, out, lastcase, lastpath, endlines, summary, sfx, sret>>
    /\ LET c == ParseArgs(argv, 0, [verbosity |-> verbosity, source_root |-> source_root])
       IN  /\ verbosity' = c.verbosity
           /\ source_root' = c.source_root
    /\ numtests' = 0 /\ numpassed' = 0 /\ numcases' = 0 /\ numerrors' = 0
    /\ IF impl = "lib"
       THEN /\ it' = 1
            /\ single' = FALSE
            /\ pc' = "loop"
       ELSE /\ it' = begin
            /\ single' = (begin = end)
            \* begin == end == nullptr: fixture->setup() is a call through a null pointer
            /\ pc' = IF begin = end /\ begin = NULL THEN "crashed" ELSE "loop"
    /\ UNCHANGED <<impl, fx, fixtures, begin, end, current, ret, oob, entry, issued, failed, log, cmp>>

\* what runall stores in suite::current before it calls setup() and run() on f
CurrentFor(f) == IF impl = "lib" THEN f ELSE current

\* does setup() print its line
SetupPrints == verbosity > quiet

\* fixture->setup(); fixture->run() up to the first statement of the body
Setup ==
    /\ pc = "loop"
    /\ HasFixture
    /\ current' = CurrentFor(LoopFixture)
    /\ log' = log \o << <<"setup", LoopFixture>>, <<"run", LoopFixture>> >>
    /\ out' = out \cup (IF SetupPrints THEN {"start"} ELSE {})
    /\ pc' = "body"
    /\ UNCHANGED <<args, received, lastcase, lastpath, endlines, summary, shadow>>
    /\ UNCHANGED <<impl, verbosity, source_root, fx, fixtures, begin, end, it, single,
                   numtests, numpassed, numcases, numerrors, ret, oob, entry, issued, failed, cmp>>

RECURSIVE Sum(_)
Sum(s) == IF s = <<>> THEN 0 ELSE Head(s) + Sum(Tail(s))

TotalIssued == Sum(issued)

\* one test_eq / test_ne / ... of the running body
TestOp(maxAsserts, success) ==
    /\ pc = "body"
    /\ TotalIssued < maxAsserts
    /\ fx' = [fx EXCEPT ![current] = test_op(@, success)]
    /\ issued' = [issued EXCEPT ![LoopFixture] = @ + 1]
    /\ failed' = [failed EXCEPT ![LoopFixture] = IF success THEN @ ELSE @ + 1]
    /\ received' = [received EXCEPT ![current] =
                        [calls |-> @.calls + 1, fails |-> IF success THEN @.fails ELSE @.fails + 1]]
    /\ LET e == Emission(verbosity, add_case(fx[current]), success) IN
        /\ lastcase' = [fixture |-> current, reported |-> e.reported, blank |-> e.blank,
                        section |-> e.section, path |-> IF e.reported THEN e.path ELSE <<>>,
                        index |-> e.index, success |-> success, detail |-> e.detail,
                        prevpath |-> lastpath[current].path,
                        moved |-> lastpath[current].moved]
        /\ out' = out \cup (IF e.blank THEN {"blank"} ELSE {})
                       \cup (IF e.section THEN {"section"} ELSE {})
                       \cup (IF e.reported THEN {"case"} ELSE {})
                       \cup (IF e.detail THEN {"detail"} ELSE {})
        /\ lastpath' = IF e.reported
                       THEN [lastpath EXCEPT ![current] = [path |-> e.path, moved |-> FALSE]]
                       ELSE lastpath
    /\ sfx' = [sfx EXCEPT ![current] = add_result_at(sverbosity, add_case(@), success)]
    /\ UNCHANGED <<args, endlines, summary, sverbosity, snumerrors, sret>>
    /\ UNCHANGED <<impl, verbosity, source_root, fixtures, begin, end, current, pc, it, single,
                   numtests, numpassed, numcases, numerrors, ret, oob, entry, log, cmp>>

\* test_section(name) { : section::section(name) on suite::current
EnterSection(maxNest, sectionNames) ==
    /\ pc = "body"
    /\ Len(entry) < maxNest
    /\ InNames(fx[current].current + 1) \/ oob < MaxOob
    /\ oob' = IF InNames(fx[current].current + 1) THEN oob ELSE oob + 1
    /\ \E name \in sectionNames : \E o \in push_section(fx[current], name) :
        /\ fx' = [fx EXCEPT ![current] = o.rec]
        /\ sfx' = [sfx EXCEPT ![current] =
                      [@ EXCEPT !.section_changed = TRUE, !.current = o.rec.current,
                                !.names = o.rec.names]]
        /\ pc' = IF o.crashed THEN "crashed" ELSE pc
    /\ lastpath' = [lastpath EXCEPT ![current].moved = TRUE]
    /\ UNCHANGED <<args, received, out, lastcase, endlines, summary>>
    /\ UNCHANGED <<sverbosity, snumerrors, sret>>
    /\ entry' = Append(entry, fx[current].current)
    /\ UNCHANGED <<impl, verbosity, source_root, fixtures, begin, end, current, it, single,
                   numtests, numpassed, numcases, numerrors, ret, issued, failed, log, cmp>>

\* } of the innermost open test_section: section::~section() on suite::current
ExitSection ==
    /\ pc = "body"
    /\ entry # <<>>
    /\ fx' = [fx EXCEPT ![current] = pop_section(@)]
    /\ sfx' = [sfx EXCEPT ![current] = pop_section(@)]
    /\ entry' = SubSeq(entry, 1, Len(entry) - 1)
    /\ lastpath' = [lastpath EXCEPT ![current].moved = TRUE]
    /\ UNCHANGED <<args, received, out, lastcase, endlines, summary>>
    /\ UNCHANGED <<sverbosity, snumerrors, sret>>
    /\ UNCHANGED <<impl, verbosity, source_root, fixtures, begin, end, current, pc, it, single,
                   numtests, numpassed, numcases, numerrors, ret, oob, issued, failed, log, cmp>>

\* a runner that clears suite::current when the body returns
CurrentAfterRun_Cleared == NULL

\* what suite::current holds once fixture->run() has returned
CurrentAfterRun == current

\* the line teardown() prints for fixture f, whatever the verbosity
TeardownLine(f) ==
    [ fixture |-> f,
      ok      |-> fx[f].errors = 0,
      shown   |-> fx[f].cases - fx[f].errors,
      total   |-> fx[f].cases,
      named   |-> impl = "header" \/ fx[f].printed_something ]

\* run() returns; fixture->teardown(); the totals; the loop's increment
Teardown ==
    /\ pc = "body"
    /\ oob = 0
    /\ entry = <<>>
    /\ LET f == LoopFixture IN
        /\ log' = Append(log, <<"teardown", f>>)
        /\ endlines' = Append(endlines, TeardownLine(f))
        /\ out' = out \cup {"end"}
        /\ snumerrors' = snumerrors + sfx[f].errors
        /\ numtests' = numtests + 1
        /\ numcases' = numcases + fx[f].cases
        /\ numerrors' = numerrors + fx[f].errors
        /\ numpassed' = IF fx[f].errors = 0 THEN numpassed + 1 ELSE numpassed
        /\ IF impl = "lib"
           THEN /\ it' = it + 1
                /\ pc' = "loop"
           ELSE IF single
                THEN /\ it' = it
                     /\ pc' = "summary"
                ELSE /\ it' = fx[f].next_test
                     /\ pc' = "loop"
    /\ current' = CurrentAfterRun
    /\ UNCHANGED <<impl, verbosity, source_root, fx, fixtures, begin, end, single,
                   ret, oob, entry, issued, failed, cmp>>
    /\ UNCHANGED <<args, received, lastcase, lastpath, summary, sverbosity, sfx, sret>>

\* the summary with one `group.name (errors)` entry per fixture that has errors
SummaryFailing_Enumerated ==
    { <<f, fx[f].errors>> : f \in {g \in DOMAIN fx : fx[g].errors > 0} }

\* the fixtures the summary names as failing: runall prints its totals and no more
SummaryFailing == {}

\* the summary line and the return of runall
Summarize ==
    /\ \/ pc = "summary"
       \/ pc = "loop" /\ ~HasFixture
    /\ log' = Append(log, <<"summary", numtests>>)
    /\ summary' = [ printed |-> TRUE, tests |-> numtests, passed |-> numpassed,
                    cases |-> numcases, casespassed |-> numcases - numerrors,
                    failing |-> SummaryFailing ]
    /\ out' = out \cup {"summary"}
    /\ ret' = numerrors
    /\ sret' = snumerrors
    /\ UNCHANGED <<args, received, lastcase, lastpath, endlines, sverbosity, sfx, snumerrors>>
    /\ pc' = "done"
    /\ UNCHANGED <<impl, verbosity, source_root, fx, fixtures, begin, end, current, it, single,
                   numtests, numpassed, numcases, numerrors, oob, entry, issued, failed, cmp>>

SectionNames == {"outer", "inner"}

Next ==
    \/ FixtureCtor(MaxFixtures)
    \/ \E argv \in ArgLists : SuiteRun(argv, argv)
    \/ Setup
    \/ \E success \in BOOLEAN : TestOp(MaxAsserts, success)
    \/ EnterSection(MaxNest, {"outer"})
    \/ ExitSection
    \/ Teardown
    \/ Summarize

Spec == Init /\ [][Next]_vars

\* The same program with bodies that nest sections past the capacity of the names array.
NextDeep ==
    \/ FixtureCtor(DeepFixtures)
    \/ \E argv \in ArgLists : SuiteRun(argv, argv)
    \/ Setup
    \/ \E success \in BOOLEAN : TestOp(DeepAsserts, success)
    \/ EnterSection(DeepNest, {"deep"})
    \/ ExitSection
    \/ Teardown
    \/ Summarize

SpecDeep == Init /\ [][NextDeep]_vars

\* Two fixtures of two assertions each, in sections of two names: what is reported.
NextReport ==
    \/ FixtureCtor(RepFixtures)
    \/ \E argv \in ArgLists : SuiteRun(argv, argv)
    \/ Setup
    \/ \E success \in BOOLEAN : TestOp(RepAsserts, success)
    \/ EnterSection(RepNest, SectionNames)
    \/ ExitSection
    \/ Teardown
    \/ Summarize

SpecReport == Init /\ [][NextReport]_vars

\* The same program run twice on the same bodies, the second time under the verbosity
\* of another argument list.
NextPair ==
    \/ FixtureCtor(RepFixtures)
    \/ \E argv \in ArgLists : \E sargv \in ArgLists : SuiteRun(argv, sargv)
    \/ Setup
    \/ \E success \in BOOLEAN : TestOp(RepAsserts, success)
    \/ EnterSection(RepNest, {"outer"})
    \/ ExitSection
    \/ Teardown
    \/ Summarize

SpecPair == Init /\ [][NextPair]_vars

\* ------------------------------------------------------------ one call of compare
\* the operands: ranges of scalars (depth 1) and ranges of ranges (depth 2)
Seqs(S, n) == UNION { [1..k -> S] : k \in 0..n }
Operands(d) == IF d = 1 THEN Seqs(Elems, MaxLen) ELSE Seqs(Seqs(Elems, 1), MaxLen)

InitCompare ==
    /\ InitReport
    /\ impl = "header"
    /\ verbosity = default_verbosity
    /\ source_root = ""
    /\ fx = <<>>
    /\ fixtures = <<>>
    /\ begin = NULL
    /\ end = NULL
    /\ current = NULL
    /\ pc = "static"
    /\ it = NULL
    /\ single = FALSE
    /\ numtests = 0 /\ numpassed = 0 /\ numcases = 0 /\ numerrors = 0
    /\ ret = 0
    /\ oob = 0
    /\ entry = <<>>
    /\ issued = <<>>
    /\ failed = <<>>
    /\ log = <<>>
    /\ cdepth \in {1, 2}
    /\ cleft \in Operands(cdepth)
    /\ cright \in Operands(cdepth)
    /\ crel \in Relations
    /\ cout = "none"

\* utest::compare(left, right, [](l, r) { return l op r; })
CompareCall ==
    /\ cout = "none"
    /\ cout' \in compare(cdepth, cleft, cright, crel)
    /\ UNCHANGED <<runner, report, shadow, cleft, cright, crel, cdepth>>

NextCompare == CompareCall

SpecCompare == InitCompare /\ [][NextCompare]_vars

\* ------------------------------------------------------------ claims
Fixtures == 1..Len(fx)
Ran(f) == \E k \in 1..Len(log) : log[k] = <<"run", f>>
TornDown(f) == \E k \in 1..Len(log) : log[k] = <<"teardown", f>>
Returned == pc = "done"

RECURSIVE SumErrors(_)
SumErrors(n) == IF n = 0 THEN 0 ELSE fx[n].errors + SumErrors(n - 1)

\* C1: with N >= 1 fixtures, runall() returns the sum of the error counters of all
\* registered fixtures, which is the number of failed assertions issued by all the
\* bodies; it returns 0 exactly when no assertion failed.
C1_ReturnsTotalErrors ==
    (Returned /\ Len(fx) >= 1) =>
        /\ ret = SumErrors(Len(fx))
        /\ ret = Sum(failed)
        /\ (ret = 0) <=> (Sum(failed) = 0)

\* C1 in the compiled harness alone (src/utest.cc)
C1_ReturnsTotalErrors_Lib == (impl = "lib") => C1_ReturnsTotalErrors

\* setup, run, teardown of fixtures 1..n in that order
RECURSIVE Lifecycle(_)
Lifecycle(n) ==
    IF n = 0 THEN <<>>
    ELSE Lifecycle(n - 1) \o << <<"setup", n>>, <<"run", n>>, <<"teardown", n>> >>

\* C2: one runall() processes every registered fixture exactly once, in registration
\* order, each through setup, run, teardown, and emits the summary after the last
\* registered fixture's teardown.
C2_EveryFixtureOnceInOrder ==
    Returned =>
        /\ Len(log) = 3 * Len(fx) + 1
        /\ SubSeq(log, 1, 3 * Len(fx)) = Lifecycle(Len(fx))
        /\ log[Len(log)][1] = "summary"

C2_EveryFixtureOnceInOrder_Lib == (impl = "lib") => C2_EveryFixtureOnceInOrder

\* C3: a failed assertion is not fatal: each failure of a body adds one to the error
\* counter of the fixture that owns that body, and every fixture registered after a
\* fixture with failures still runs.
C3_FailureNotFatal ==
    /\ \A f \in Fixtures : fx[f].errors = failed[f]
    /\ Returned => \A f \in Fixtures : failed[f] > 0 => \A g \in Fixtures : g > f => Ran(g)

C3_FailureNotFatal_Lib == (impl = "lib") => C3_FailureNotFatal

\* C4: compare of two sequences of different lengths returns false, for every
\* relation, an empty sequence included.
C4_DifferentLengthsFalse ==
    (cout # "none" /\ Len(cleft) # Len(cright)) => cout = "false"

\* an operand nested d levels deep that holds no empty range
NoEmpty(d, a) == d = 0 \/ (a # <<>> /\ (d = 1 \/ \A i \in 1..Len(a) : a[i] # <<>>))

\* C4 for operands that hold no empty range
C4_DifferentLengthsFalse_NonEmpty ==
    (NoEmpty(cdepth, cleft) /\ NoEmpty(cdepth, cright)) => C4_DifferentLengthsFalse

\* A[i] R B[i] for operands nested d levels deep
RECURSIVE Holds(_, _, _, _)
Holds(d, a, b, R) ==
    IF d = 0 THEN Pred(R, a, b)
    ELSE /\ Len(a) = Len(b)
         /\ \A i \in 1..Len(a) : Holds(d - 1, a[i], b[i], R)

\* C5: compare of two sequences of the same length n >= 0 returns true exactly when
\* every pair of elements satisfies the relation (two empty sequences compare true),
\* and false otherwise.
C5_EqualLengthsElementwise ==
    (cout # "none" /\ Len(cleft) = Len(cright)) =>
        cout = Outcome(\A i \in 1..Len(cleft) : Holds(cdepth - 1, cleft[i], cright[i], crel))

\* C5 for operands that hold no empty range
C5_EqualLengthsElementwise_NonEmpty ==
    (NoEmpty(cdepth, cleft) /\ NoEmpty(cdepth, cright)) => C5_EqualLengthsElementwise

\* C6: when a scoped section exits, the section depth of the current fixture is what
\* it was before the section was entered, and when a body returns the depth is 0.
C6_SectionDepthRestored ==
    [][ /\ (pc = "body" /\ entry # <<>> /\ Len(entry') = Len(entry) - 1)
            => fx'[current].current = entry[Len(entry)]
        /\ (pc = "body" /\ pc' \in {"loop", "summary"})
            => fx[current].current = 0 ]_vars

\* C6 while no push has written outside the names array
C6_SectionDepthRestored_InBounds ==
    [][ oob = 0 =>
        /\ (pc = "body" /\ entry # <<>> /\ Len(entry') = Len(entry) - 1)
            => fx'[current].current = entry[Len(entry)]
        /\ (pc = "body" /\ pc' \in {"loop", "summary"})
            => fx[current].current = 0 ]_vars

\* C7: the section depth of every fixture stays within the names array,
\* 0 <= sections.current <= 31, whatever the nesting of scoped sections.
C7_DepthWithinCapacity ==
    \A f \in Fixtures : InNames(fx[f].current)

\* the counters and the section stack of a fixture
Tallies(r) == <<r.cases, r.caseindex, r.errors, r.current, r.section_changed>>

\* C8: while the body of fixture F runs, suite::current is F, and the counters and
\* the section stack of a fixture change only while its own body runs.
C8_CurrentIsRunningFixture ==
    [][ /\ (pc' = "body") => current' = LoopFixture'
        /\ \A f \in Fixtures :
              Tallies(fx'[f]) # Tallies(fx[f]) => (pc = "body" /\ LoopFixture = f /\ ~TornDown(f)) ]_vars

C8_CurrentIsRunningFixture_Lib ==
    [][ impl = "lib" =>
        /\ (pc' = "body") => current' = LoopFixture'
        /\ \A f \in Fixtures :
              Tallies(fx'[f]) # Tallies(fx[f]) => (pc = "body" /\ LoopFixture = f /\ ~TornDown(f)) ]_vars

\* C9 as stated: suite::current is the running fixture during a body and designates
\* no fixture between two bodies and after runall() has returned.
C9_CurrentClearedAfterBody ==
    /\ (pc = "body") => current = LoopFixture
    /\ (pc \in {"loop", "summary", "done"} /\ numtests > 0) => current = NULL

\* C9 as amended: the runner does not clear suite::current. Once a fixture's body
\* has returned, between two bodies and after runall() has returned, suite::current
\* still designates a registered fixture; in src/utest.cc it is the fixture whose
\* body ran last.
C9_CurrentKeptAfterBody ==
    (pc \in {"loop", "summary", "done"} /\ numtests > 0) =>
        /\ current \in Fixtures
        /\ (impl = "lib") => current = fixtures[numtests]

C9_Witness ==
    /\ Returned
    /\ numtests >= 2
    /\ impl = "lib"
    /\ current = fixtures[numtests]

\* C10: once the body of a fixture has run, its case counter is the number of
\* assertion calls that body executed, whatever their outcomes and the verbosity.
C10_CasesCountAssertions ==
    \A f \in Fixtures : TornDown(f) => fx[f].cases = issued[f]

C10_CasesCountAssertions_Lib == (impl = "lib") => C10_CasesCountAssertions

\* C11: for every fixture object, after any sequence of add_result calls, errors is
\* the number of those calls that received success = false (so a call with
\* success = true leaves errors as it was).
C11_ErrorsCountFailedResults ==
    \A f \in DOMAIN fx : fx[f].errors = received[f].fails

C11_Witness ==
    \E f \in DOMAIN fx :
        /\ received[f].calls >= 2
        /\ received[f].fails >= 1
        /\ received[f].fails < received[f].calls
        /\ lastcase.success

\* C12 as stated: under quiet verbosity no report line of any kind is emitted during
\* a run: no fixture-start line, section header, case header, operand detail or
\* fixture-end pass/fail line.
C12_QuietPrintsNothing ==
    (verbosity = quiet) => out = {}

\* C12 as amended: under quiet verbosity no fixture-start line, section header, case
\* header or operand detail is emitted, but teardown still prints the fixture-end
\* pass/fail line of every fixture that ran and runall still prints its summary line.
C12_QuietKeepsEndLines ==
    (verbosity = quiet) =>
        /\ out \subseteq {"end", "summary"}
        /\ ("end" \in out) <=> (numtests > 0)
        /\ Len(endlines) = numtests
        /\ ("summary" \in out) <=> (pc = "done")

C12_Witness ==
    /\ verbosity = quiet
    /\ pc = "done"
    /\ numtests >= 1
    /\ \E f \in DOMAIN fx : received[f].fails >= 1 /\ received[f].calls >= 2
    /\ out = {"end", "summary"}

\* C13: the counters do not depend on the verbosity: the same bodies (same outcomes,
\* same section pushes and pops) run under any two verbosity levels leave the same
\* cases, errors and caseindex in every fixture and make runall() return the same
\* value.
C13_CountersIndependentOfVerbosity ==
    /\ \A f \in DOMAIN fx :
          /\ fx[f].cases = sfx[f].cases
          /\ fx[f].errors = sfx[f].errors
          /\ fx[f].caseindex = sfx[f].caseindex
    /\ numerrors = snumerrors
    /\ ret = sret

C13_Witness ==
    /\ pc = "done"
    /\ verbosity = quiet
    /\ sverbosity = everything
    /\ ret >= 1
    /\ \E f \in DOMAIN fx : fx[f].cases >= 2 /\ fx[f].errors < fx[f].cases

\* the latest add_result call, if there was one
Called == lastcase.fixture # NULL

\* C14 as stated: under passed verbosity add_result prints the one-line case header
\* for every case, passed or failed, and never the operand detail; the operand detail
\* is printed under everything only.
C14_PassedOmitsDetail ==
    /\ (Called /\ verbosity = passed) => (lastcase.reported /\ ~lastcase.detail)
    /\ ("detail" \in out) => (verbosity = everything)

\* C14 as amended: under passed verbosity add_result prints the case header for every
\* case, and the operand detail for exactly the failed ones. At every level, the
\* detail is printed for a reported case that failed, and under everything for every
\* case.
C14_PassedDetailsFailures ==
    Called =>
        /\ (verbosity = passed) => (lastcase.reported /\ (lastcase.detail <=> ~lastcase.success))
        /\ (verbosity = everything) => (lastcase.reported /\ lastcase.detail)
        /\ lastcase.detail <=>
               (lastcase.reported /\ (~lastcase.success \/ verbosity = everything))

C14_Witness ==
    /\ Called
    /\ verbosity = passed
    /\ ~lastcase.success
    /\ lastcase.reported
    /\ lastcase.detail
    /\ lastcase.index >= 1

\* C15: under failures verbosity add_result prints a case exactly when success is
\* false. A fixture whose assertions all pass (sections "outer" and "inner" nested,
\* two passing assertions) gets no section header and no case line from add_result,
\* while its cases and errors are still counted (2 and 0).
C15_FailuresReportsOnlyFailures ==
    (verbosity = failures) =>
        /\ Called => (lastcase.reported <=> ~lastcase.success)
        /\ (\A f \in DOMAIN fx : received[f].fails = 0) =>
               out \cap {"blank", "section", "case", "detail"} = {}
        /\ \A f \in DOMAIN fx :
               /\ fx[f].cases = received[f].calls
               /\ fx[f].errors = received[f].fails

C15_Witness ==
    /\ verbosity = failures
    /\ pc = "body"
    /\ fx[current].names = <<"main", "outer", "inner">>
    /\ fx[current].cases = 2
    /\ fx[current].errors = 0
    /\ ~lastcase.reported
    /\ out = {"start"}

\* the fixtures with errors, each with its error counter
FailingFixtures ==
    { <<f, fx[f].errors>> : f \in {g \in DOMAIN fx : fx[g].errors > 0} }

LevelName(v) ==
    CASE v = quiet -> "quiet"
      [] v = failures -> "failures"
      [] v = passed -> "passed"
      [] OTHER -> "everything"

\* argv holds a verbosity flag directly followed by the name of level v
HasVerbosityPair(argv, v) ==
    \E i \in 1..(Len(argv) - 1) :
        argv[i] \in {"--verbosity", "-v"} /\ argv[i + 1] = LevelName(v)

\* C17: suite::run is lenient. Before any argument is applied the verbosity is
\* failures; an argument list changes it only through --verbosity / -v followed by
\* quiet, failures, passed or everything; any other token, a flag followed by an
\* unknown value and a flag that is the last argument leave the configuration as it
\* was, and runall() is entered all the same.
C17_LenientArguments ==
    /\ (pc = "static") => (verbosity = failures /\ args = <<>>)
    /\ (verbosity # failures) => HasVerbosityPair(args, verbosity)
    /\ (\A i \in 1..Len(args) : args[i] \notin {"--source_root", "-s"}) => source_root = ""
    /\ (args # <<>>) => (pc # "static")

C17_Witness ==
    /\ args \in { <<"utest", "-v", "bogus">>, <<"utest", "bogus", "-v">>, <<"utest", "passed">> }
    /\ verbosity = failures
    /\ pc = "done"
    /\ numtests >= 1

\* C18 as stated: a section header is printed before a reported case exactly when the
\* section path differs from the path of the previous reported case of that fixture,
\* or the case is the fixture's first reported one; a push undone by a pop with no
\* report in between does not print the header again.
C18_HeaderIffPathChanged ==
    (Called /\ lastcase.reported) =>
        (lastcase.section <=> (lastcase.prevpath = <<>> \/ lastcase.prevpath # lastcase.path))

\* C18 as amended: a section header is printed before a reported case exactly when
\* the case is the fixture's first reported one or push_section or pop_section was
\* called on the fixture since its previous reported case. Two reported cases with no
\* push or pop between them give one header; a push undone by a pop gives the header
\* again, although the path is the one printed last.
C18_HeaderIffSectionCalls ==
    (Called /\ lastcase.reported) =>
        /\ lastcase.section <=> (lastcase.prevpath = <<>> \/ lastcase.moved)
        /\ (lastcase.prevpath # <<>> /\ lastcase.prevpath # lastcase.path) => lastcase.section

C18_Witness ==
    /\ Called
    /\ lastcase.reported
    /\ lastcase.section
    /\ lastcase.moved
    /\ lastcase.prevpath = lastcase.path

\* C19: add_result advances caseindex by exactly one on every call, whatever the
\* outcome and the verbosity, after the case is reported: after every assertion
\* caseindex = cases and 0 <= errors <= cases, and the k-th assertion of a fixture's
\* body (from 0) is reported with index k whenever it is reported.
C19_CaseIndexCountsAssertions ==
    /\ \A f \in DOMAIN fx :
          /\ fx[f].caseindex = fx[f].cases
          /\ 0 <= fx[f].errors
          /\ fx[f].errors <= fx[f].cases
    /\ (pc = "body" /\ issued[LoopFixture] > 0 /\ lastcase.reported) =>
          lastcase.index = issued[LoopFixture] - 1

\* C19 in the compiled harness alone (src/utest.cc)
C19_CaseIndexCountsAssertions_Lib == (impl = "lib") => C19_CaseIndexCountsAssertions

RECURSIVE SumCases(_)
SumCases(n) == IF n = 0 THEN 0 ELSE fx[n].cases + SumCases(n - 1)

\* C20: the totals of the final summary cover all registered fixtures: tests run is
\* their number, tests passed the number of those without errors, total cases the
\* sum of their case counters, cases passed that sum minus the sum of their error
\* counters; every fixture's teardown line shows (cases - errors)/cases of its final
\* counters and is a passed line exactly when its errors is zero.
C20_SummaryCoversAllFixtures ==
    summary.printed =>
        /\ summary.tests = Len(fx)
        /\ summary.passed = Cardinality({f \in Fixtures : fx[f].errors = 0})
        /\ summary.cases = SumCases(Len(fx))
        /\ summary.casespassed = SumCases(Len(fx)) - SumErrors(Len(fx))
        /\ \A f \in Fixtures : \E k \in 1..Len(endlines) : endlines[k].fixture = f
        /\ \A k \in 1..Len(endlines) :
              LET f == endlines[k].fixture IN
              /\ endlines[k].shown = fx[f].cases - fx[f].errors
              /\ endlines[k].total = fx[f].cases
              /\ endlines[k].ok <=> (fx[f].errors = 0)

\* C20 in the compiled harness alone (src/utest.cc)
C20_SummaryCoversAllFixtures_Lib == (impl = "lib") => C20_SummaryCoversAllFixtures

\* C21: runall() on a registry with no fixture calls no fixture operation (no setup,
\* run or teardown on a fixture that does not exist), prints a summary of 0 tests and
\* 0 cases, and returns 0.
C21_EmptyRegistryRunsNothing ==
    (Len(fx) = 0 /\ pc # "static") =>
        /\ pc # "crashed"
        /\ log \in {<<>>, << <<"summary", 0>> >>}
        /\ endlines = <<>>
        /\ out \subseteq {"summary"}
        /\ (pc = "done") =>
              /\ summary.printed
              /\ summary.tests = 0
              /\ summary.cases = 0
              /\ ret = 0

\* C21 in the compiled harness alone (src/utest.cc)
C21_EmptyRegistryRunsNothing_Lib == (impl = "lib") => C21_EmptyRegistryRunsNothing

\* the compiled harness does reach the end of runall() with no fixture
C21_EmptyRegistryReturns_Lib ==
    ~(impl = "lib" /\ Len(fx) = 0 /\ pc = "done" /\ summary.printed)

====
